---- MODULE Spec2Model ----
(***************************************************************************)
(* waypaper_rs: the video wallpaper pipeline.                              *)
(*                                                                         *)
(* A VideoWallpaper (src/wallpaper/video_hw.rs) spawns, on run(), a decode *)
(* task and a render task joined by a bounded tokio mpsc channel.  The     *)
(* Player (src/wallpaper/player.rs) holds at most one wallpaper and is     *)
(* driven by the daemon's request handler (src/ipc/server.rs) or by a      *)
(* program that uses the library directly (examples/video_test.rs).        *)
(***************************************************************************)
EXTENDS Integers, Sequences, FiniteSets, TLC

(***************************************************************************)
(* Bounds of the model.                                                    *)
(***************************************************************************)
\* VideoWallpaper objects created in one run of the program.
MaxWallpapers == 2
\* Pipelines (one decode task, one render task, one channel) spawned in one run.
MaxPipes == 2
\* Capacity of the frame channel.  run() creates it with 60 slots
\* (video_hw.rs:499); the model checks a channel of this many slots.
ChannelCapacity == 2
\* Packets of the input file.
MaxPackets == 3
\* Times the decoder may reach end of file in a bounded-horizon specification.
MaxEpochs == 1
\* A stall of the render loop, in milliseconds.
StallMs == 200

(***************************************************************************)
(* Program constants.                                                      *)
(***************************************************************************)
StopCheckEvery == 100
PauseCheckEvery == 10
DefaultFrameTimeMs == 33
LoopDetectFrames == 100
DecoderOutputWidth == 1920
DecoderOutputHeight == 1080
DefaultOutputWidth == 1920
DefaultOutputHeight == 1080
pool_size == 3840 * 2160 * 4

Wallpapers == 1..MaxWallpapers
Pipes == 1..MaxPipes

None == <<>>
Some(x) == <<x>>
IsSome(o) == o # <<>>
Unwrap(o) == o[1]

VARIABLES
    context,      \* "lib": the Player is called from synchronous code;
                  \* "daemon": it is called from handle_request, on the runtime;
                  \* "example": examples/video_test.rs runs a wallpaper itself
    video,        \* the input file: its packets, in demuxer order
    time_base,    \* the selected stream's time base <<numerator, denominator>>
    nWall,        \* VideoWallpaper objects created so far (ids 1..nWall)
    wstate,       \* per wallpaper: "unborn", "standalone", "player", "dropped"
    is_paused,    \* per wallpaper: VideoWallpaper.is_paused
    is_stopped,   \* per wallpaper: VideoWallpaper.is_stopped
    wallpaper,    \* Player.wallpaper: 0 for None, else the wallpaper's id
    is_running,   \* Player.is_running
    nPipe,        \* pipelines spawned so far (ids 1..nPipe)
    owner,        \* per pipeline: the wallpaper whose run() spawned it
    dec,          \* per pipeline: the decode task (decode_video_async)
    chan,         \* per pipeline: the mpsc channel
    pres,         \* per pipeline: the render task (render_frames_async)
    last_op,      \* history: the last control operation and its wallpaper
    hist,         \* history, per pipeline: frames sent, received and committed
    track,        \* whether the histories (hist, epochs, commit counters) are kept
    compositor,   \* the events the compositor of this run may send
    capacity,     \* the capacity of a pipeline's channel
    clock,        \* the wall time (ms) an iteration of the render loop may take
                  \* up to its pacing step: waiting for the frame and rendering
    server,       \* the ways the compositor may behave while a WaylandApp is built
    process,      \* "running", or "exited" after std::process::exit
    scale_call    \* a call of a scaling function: its arguments and its outcome

ctlVars == <<nWall, wstate, is_paused, is_stopped, wallpaper, is_running, last_op>>
pipeVars == <<nPipe, owner, dec, chan, pres, hist>>
inputVars == <<context, video, time_base, track, compositor, server, capacity,
               clock, scale_call>>
vars == <<context, video, time_base, nWall, wstate, is_paused, is_stopped,
          wallpaper, is_running, nPipe, owner, dec, chan, pres, last_op, hist, track,
          compositor, server, capacity, clock, process, scale_call>>

\* A step of the program: the process has not exited, and does not exit in it.
Running == process = "running" /\ UNCHANGED process

(***************************************************************************)
(* The input file.  A packet is what the demuxer hands out next and what   *)
(* the codec answers to it:                                                *)
(*   "frame"    a packet of the video stream; receive_frame yields a frame *)
(*              with a PTS                                                 *)
(*   "burst"    a packet of the video stream after which the codec has two *)
(*              frames ready: the packet's and one more, PtsStep later     *)
(*   "nopts"    as "frame", but the frame has no PTS                       *)
(*   "again"    a packet of the video stream; receive_frame answers        *)
(*              EAGAIN or Eof                                              *)
(*   "other"    a packet of another stream                                 *)
(*   "senderr"  send_packet fails                                          *)
(*   "recverr"  receive_frame fails with another error                     *)
(* Videos draws on every kind but "burst", which BurstVideos has.          *)
(***************************************************************************)
PacketKinds == {"frame", "nopts", "again", "other", "senderr", "recverr"}

\* The line size (stride(0)) of a decoded frame of the output width once it is
\* BGRA: the row itself, or the row and 64 bytes of padding.
TightLinesize == DecoderOutputWidth * 4
PaddedLinesize == DecoderOutputWidth * 4 + 64

Packet(k, pts) == [kind |-> k, pts |-> pts, linesize |-> TightLinesize]
PaddedPacket(k, pts) == [kind |-> k, pts |-> pts, linesize |-> PaddedLinesize]

\* The PTS step between two packets of a generated input, in time-base units.
PtsStep == 40

RECURSIVE SeqsUpTo(_, _)
SeqsUpTo(S, n) ==
    IF n = 0 THEN {<<>>}
    ELSE LET shorter == SeqsUpTo(S, n - 1)
         IN  shorter \cup {Append(s, x) : s \in {t \in shorter : Len(t) = n - 1}, x \in S}

\* Every input of 1..MaxPackets packets; packet i carries PTS i * PtsStep.
Videos ==
    {[i \in 1..Len(ks) |-> Packet(ks[i], i * PtsStep)] :
        ks \in SeqsUpTo(PacketKinds, MaxPackets) \ {<<>>}}

\* PTS values that repeat, go back, and lie far apart.
PtsValues == {0, PtsStep, 50 * PtsStep}

\* Every input of 1..MaxPackets frames with PTS values of PtsValues.
PtsVideos ==
    {[i \in 1..Len(ps) |-> Packet("frame", ps[i])] :
        ps \in SeqsUpTo(PtsValues, MaxPackets) \ {<<>>}}

\* Every input of 1..MaxPackets frames, each with or without row padding.
LinesizeVideos ==
    {[i \in 1..Len(bs) |-> IF bs[i] THEN PaddedPacket("frame", i * PtsStep)
                                   ELSE Packet("frame", i * PtsStep)] :
        bs \in SeqsUpTo(BOOLEAN, MaxPackets) \ {<<>>}}

(***************************************************************************)
(* FrameData (video_hw.rs:458-463).  idx and epoch stand for the frame's   *)
(* bytes: the decoder's frame_count when it produced the frame and the     *)
(* number of end-of-file seeks before it.                                  *)
(***************************************************************************)
FrameData(idx, epoch, len, w, h, t) ==
    [idx |-> idx, epoch |-> epoch, len |-> len, width |-> w, height |-> h,
     frame_time |-> t]

\* Faulty variant: the whole plane is copied, padding included.
extract_whole_plane(linesize, width, height) == linesize * height

\* extract_frame_data (video_hw.rs:778-804): the length of the Vec it returns;
\* row y is copied from offset y * linesize of the plane to y * width * 4.
extract_frame_data(linesize, width, height) == (width * 4) * height

(***************************************************************************)
(* The inter-frame duration (video_hw.rs:736-743).                         *)
(***************************************************************************)
\* (pts_diff * num / den * 1000.0) as u32: the quotient, truncated; the cast
\* turns a negative value into 0.  (It also saturates at u32::MAX, which no
\* input of the model reaches; the time base has a positive denominator.)
TimeMs(pts_diff, tb) ==
    LET n == pts_diff * tb[1] * 1000
    IN  IF n <= 0 THEN 0 ELSE n \div tb[2]

\* Faulty variant: the duration computed from the PTS is taken as it is.
FrameTimeUnchecked(cur, last_pts, pts, tb) ==
    IF IsSome(last_pts) THEN TimeMs(pts - Unwrap(last_pts), tb) ELSE cur

\* frame_time_ms after a frame with this PTS: replaced only by a duration in 1..999.
FrameTimeMs(cur, last_pts, pts, tb) ==
    IF IsSome(last_pts)
    THEN LET time_ms == TimeMs(pts - Unwrap(last_pts), tb)
         IN  IF time_ms > 0 /\ time_ms < 1000 THEN time_ms ELSE cur
    ELSE cur

(***************************************************************************)
(* The frame channel: tokio::sync::mpsc::channel::<FrameData>(capacity),   *)
(* created by run() (video_hw.rs:499); the sender is owned by the decode   *)
(* task, the receiver by the render task.                                  *)
(***************************************************************************)
ChanNew == [q |-> <<>>, tx |-> TRUE, rx |-> TRUE]
ChanNone == [q |-> <<>>, tx |-> FALSE, rx |-> FALSE]

\* Faulty variant: the capacity test off by one: a send into a full channel returns.
SendReadyOffByOne(c) == ~c.rx \/ Len(c.q) <= capacity

\* tx.send(frame).await returns: the receiver is gone, or a slot is free.
SendReady(c) == ~c.rx \/ Len(c.q) < capacity

\* Faulty variant: a send that reports success although the receiver is gone.
SendNeverFails(c) == FALSE

\* ... with an error when the receiver is gone.
SendFails(c) == ~c.rx

\* Faulty variant: a send that puts the frame in front of the frames already queued.
ChanSendFront(c, f) == [c EXCEPT !.q = <<f>> \o @]

\* A successful send puts the frame behind the frames already queued.
ChanSend(c, f) == [c EXCEPT !.q = Append(@, f)]

\* rx.recv().await returns: a frame is queued, or every sender is gone.
RecvReady(c) == Len(c.q) > 0 \/ ~c.tx

\* Faulty variant: a receive that reports the end of the stream as soon as the sender
\* is gone, whatever is still queued.
RecvNoneWhenClosed(c) == ~c.tx

\* ... with None only when nothing is queued.
RecvIsNone(c) == Len(c.q) = 0

\* Faulty variant: a receive that takes the newest frame and discards the oldest.
ChanNewest(c) == c.q[Len(c.q)]

ChanFront(c) == Head(c.q)
ChanPop(c) == [c EXCEPT !.q = Tail(@)]

\* Dropping the sender / the receiver (the task that owns it returned).
DropTx(c) == [c EXCEPT !.tx = FALSE]
DropRx(c) == [c EXCEPT !.rx = FALSE, !.q = <<>>]

(***************************************************************************)
(* The decode task (decode_video_async, video_hw.rs:526-775).              *)
(*   pc: "none"  not spawned                                               *)
(*       "open"  before the decode loop (ffmpeg init .. decoder set-up)    *)
(*       "top"   at the top of the loop                                    *)
(*       "sleep" in the 100 ms sleep of the paused branch                  *)
(*       "send"  in tx.send(frame_data).await                              *)
(*       "done"  returned; result says how                                 *)
(* One step runs from one suspension point (sleep, send) to the next.      *)
(***************************************************************************)
DecoderNone ==
    [pc |-> "none", frame_count |-> 0, pos |-> 1, last_pts |-> None,
     frame_time_ms |-> DefaultFrameTimeMs, pending |-> None, epoch |-> 0,
     codec |-> <<>>, result |-> "none"]

DecoderSpawned == [DecoderNone EXCEPT !.pc = "open", !.result = "running"]

\* video_hw.rs:601: the stop flag is read only when frame_count % 100 == 0.
StopObserved(frame_count, stopped) == frame_count % StopCheckEvery = 0 /\ stopped

\* Faulty variant: the pause flag is read as rarely as the stop flag.
PauseObservedRarely(frame_count, paused) == frame_count % StopCheckEvery = 0 /\ paused

\* video_hw.rs:607: the pause flag is read only when frame_count % 10 == 0.
PauseObserved(frame_count, paused) == frame_count % PauseCheckEvery = 0 /\ paused

\* The loop's head (video_hw.rs:600-610): "stop", "pause" or "go".
DecoderHead(p) ==
    IF StopObserved(dec[p].frame_count, is_stopped[owner[p]]) THEN "stop"
    ELSE IF PauseObserved(dec[p].frame_count, is_paused[owner[p]]) THEN "pause"
    ELSE "go"

DecoderReturn(p, d, result) ==
    /\ dec' = [dec EXCEPT ![p] = [d EXCEPT !.pc = "done", !.result = result]]
    /\ chan' = [chan EXCEPT ![p] = DropTx(@)]

\* video_hw.rs:539-587: everything before the loop either succeeds or returns
\* Err; "hw_init_failed" is the Err of HardwareDecoder::new or configure_decoder
\* (video_hw.rs:575-576) for the wallpaper's backend, VAAPI unless set otherwise.
DecoderOpen(p) ==
    /\ Running
    /\ dec[p].pc = "open"
    /\ \E outcome \in {"ok", "open_failed", "hw_init_failed"} :
        IF outcome = "ok"
        THEN /\ dec' = [dec EXCEPT ![p].pc = "top"]
             /\ UNCHANGED chan
        ELSE DecoderReturn(p, dec[p], outcome)
    /\ UNCHANGED <<ctlVars, inputVars, nPipe, owner, pres, hist>>

\* video_hw.rs:601-604
DecoderStop(p) ==
    /\ Running
    /\ dec[p].pc = "top"
    /\ DecoderHead(p) = "stop"
    /\ DecoderReturn(p, dec[p], "stopped")
    /\ UNCHANGED <<ctlVars, inputVars, nPipe, owner, pres, hist>>

\* video_hw.rs:607-610: paused; sleep 100 ms ...
DecoderPause(p) ==
    /\ Running
    /\ dec[p].pc = "top"
    /\ DecoderHead(p) = "pause"
    /\ dec' = [dec EXCEPT ![p].pc = "sleep"]
    /\ UNCHANGED <<ctlVars, inputVars, nPipe, owner, chan, pres, hist>>

\* (DecoderWakeResumes is DecoderWake for a Decoder that clears the pause flag
\* of its wallpaper when its sleep ends.)
DecoderWakeResumes(p) ==
    /\ Running
    /\ dec[p].pc = "sleep"
    /\ dec' = [dec EXCEPT ![p].pc = "top"]
    /\ is_paused' = [w \in Wallpapers |-> is_paused[w] /\ w # owner[p]]
    /\ UNCHANGED <<nWall, wstate, is_stopped, wallpaper, is_running, last_op>>
    /\ UNCHANGED <<inputVars, nPipe, owner, chan, pres, hist>>

\* ... and start the loop again.
DecoderWake(p) ==
    /\ Running
    /\ dec[p].pc = "sleep"
    /\ dec' = [dec EXCEPT ![p].pc = "top"]
    /\ UNCHANGED <<ctlVars, inputVars, nPipe, owner, chan, pres, hist>>

\* Faulty variant: the end of file rewinds and restarts the frame count but keeps
\* the PTS of the last frame and the last duration.
DecoderEofKeepsPts(p) ==
    /\ Running
    /\ dec[p].pc = "top"
    /\ DecoderHead(p) = "go"
    /\ dec[p].pos > Len(video)
    /\ track => dec[p].epoch < MaxEpochs
    /\ \E seek_ok \in BOOLEAN :
        dec' = [dec EXCEPT ![p] =
                   [@ EXCEPT !.pos = IF seek_ok THEN 1 ELSE @,
                             !.frame_count = 0,
                             !.epoch = IF track THEN @ + 1 ELSE @]]
    /\ UNCHANGED <<ctlVars, inputVars, nPipe, owner, chan, pres, hist>>

\* video_hw.rs:612-622: end of file.  The result of seek is discarded; when the
\* container rejects the seek the demuxer stays at the end.
DecoderEof(p) ==
    /\ Running
    /\ dec[p].pc = "top"
    /\ DecoderHead(p) = "go"
    /\ dec[p].pos > Len(video)
    /\ track => dec[p].epoch < MaxEpochs
    /\ \E seek_ok \in BOOLEAN :
        dec' = [dec EXCEPT ![p] =
                   [@ EXCEPT !.pos = IF seek_ok THEN 1 ELSE @,
                             !.frame_count = 0,
                             !.last_pts = None,
                             !.frame_time_ms = DefaultFrameTimeMs,
                             !.epoch = IF track THEN @ + 1 ELSE @]]
    /\ UNCHANGED <<ctlVars, inputVars, nPipe, owner, chan, pres, hist>>

\* video_hw.rs:743-750: the frame handed to the channel.
DecodedFrame(d, pkt) ==
    FrameData(d.frame_count + 1, d.epoch,
              extract_frame_data(pkt.linesize, DecoderOutputWidth, DecoderOutputHeight),
              DecoderOutputWidth, DecoderOutputHeight,
              FrameTimeMs(d.frame_time_ms, d.last_pts, pkt.pts, time_base))

\* The frames a packet of the video stream adds to those the codec has ready.
CodecOutput(pkt) ==
    CASE pkt.kind = "frame" -> <<pkt>>
      [] pkt.kind = "burst" -> <<pkt, [pkt EXCEPT !.pts = @ + PtsStep]>>
      [] OTHER -> <<>>

\* video_hw.rs:612-768: one packet, up to the send of its frame.  There is one
\* send_packet and one receive_frame for a packet (video_hw.rs:629-636): the
\* frame received is the oldest the codec has ready, and the others stay in the
\* codec (dec.codec).  While the codec holds a frame that was not received,
\* send_packet may refuse the next packet with EAGAIN, which is an error here.
DecoderPacket(p) ==
    /\ Running
    /\ dec[p].pc = "top"
    /\ DecoderHead(p) = "go"
    /\ dec[p].pos <= Len(video)
    /\ LET d == dec[p]
           pkt == video[d.pos]
           next == [d EXCEPT !.pos = @ + 1]
       IN  CASE pkt.kind \in {"other", "nopts"} ->
                  /\ dec' = [dec EXCEPT ![p] = next]
                  /\ UNCHANGED chan
             [] pkt.kind \in {"senderr", "recverr"} ->
                  DecoderReturn(p, next, "decode_error")
             [] pkt.kind \in {"frame", "burst", "again"} ->
                  \E accepted \in (IF d.codec = <<>> THEN {TRUE} ELSE BOOLEAN) :
                      LET ready == d.codec \o CodecOutput(pkt)
                      IN  IF ~accepted
                          THEN DecoderReturn(p, next, "decode_error")
                          ELSE IF ready = <<>>
                          THEN /\ dec' = [dec EXCEPT ![p] = next]
                               /\ UNCHANGED chan
                          ELSE /\ dec' = [dec EXCEPT ![p] =
                                     [next EXCEPT
                                        !.pc = "send",
                                        !.frame_count = @ + 1,
                                        !.frame_time_ms = DecodedFrame(d, Head(ready)).frame_time,
                                        !.last_pts = Some(Head(ready).pts),
                                        !.pending = Some(DecodedFrame(d, Head(ready))),
                                        !.codec = Tail(ready)]]
                               /\ UNCHANGED chan
    /\ UNCHANGED <<ctlVars, inputVars, nPipe, owner, pres, hist>>

Log(s, x) == IF track THEN Append(s, x) ELSE s

\* video_hw.rs:752-755
DecoderSend(p) ==
    /\ Running
    /\ dec[p].pc = "send"
    /\ SendReady(chan[p])
    /\ IF SendFails(chan[p])
       THEN /\ DecoderReturn(p, [dec[p] EXCEPT !.pending = None], "disconnected")
            /\ UNCHANGED hist
       ELSE /\ chan' = [chan EXCEPT ![p] = ChanSend(@, Unwrap(dec[p].pending))]
            /\ dec' = [dec EXCEPT ![p] = [@ EXCEPT !.pc = "top", !.pending = None]]
            /\ hist' = [hist EXCEPT ![p] =
                           [@ EXCEPT !.sent = Log(@, Unwrap(dec[p].pending)),
                                     !.since_pause =
                                         IF track /\ is_paused[owner[p]] THEN @ + 1 ELSE @]]
    /\ UNCHANGED <<ctlVars, inputVars, nPipe, owner, pres>>


(***************************************************************************)
(* WaylandApp (src/wayland/wayland.rs), as far as the render task uses it. *)
(***************************************************************************)
\* Byte counts that may pass 2^31 are kept in blocks of BlockBytes bytes: every
\* width and height of the model is a multiple of 8 pixels, so a frame of 4-byte
\* pixels is a whole number of blocks and u32 arithmetic on it is exact.
BlockBytes == 256
\* 2^32 bytes and 2^31 bytes, in blocks.
U32Blocks == 16777216
I32Blocks == 8388608

\* stride * height for stride = width * 4, in blocks, without any word limit.
Blocks(width, height) == (width \div 8) * (height \div 8)

\* wayland.rs:183-184: `stride * render_height` in u32, as the release build
\* computes it (the sizes of the model stay below 2^32, where the debug build
\* computes the same).
U32Size(width, height) == Blocks(width, height) % U32Blocks

\* wayland.rs:187: `size as i32 > self.pool_size`; a size of 2^31 bytes or more
\* is negative as i32.
ExceedsPool(size) == size < I32Blocks /\ size > pool_size \div BlockBytes

\* The events of the compositor that the handlers of WaylandApp tell apart.
Event(kind, width, height, flags) ==
    [kind |-> kind, width |-> width, height |-> height, flags |-> flags]

NoEvent == Event("none", 0, 0, {})
\* zwlr_layer_surface_v1.configure and .closed; wl_buffer.release
ConfigureEvent == Event("configure", DefaultOutputWidth, DefaultOutputHeight, {})
ClosedEvent == Event("closed", 0, 0, {})
ReleaseEvent == Event("release", 0, 0, {})
\* wl_output.mode
ModeEvent(width, height, flags) == Event("mode", width, height, flags)

\* The decoder's own size, 4K (a frame fills the pool exactly), 8K (four pools)
\* and a size of 2^31 bytes.
OutputSizes == {<<1920, 1080>>, <<3840, 2160>>, <<7680, 4320>>, <<32768, 16384>>}
ModeFlags == {{"current"}, {"current", "preferred"}, {"preferred"}}

\* A compositor that configures the surface and sends nothing else, and one
\* that sends every event.
BasicEvents == {NoEvent, ConfigureEvent}
\* A configure with a size of its own (the 4K size).
ConfigureSizes == {<<3840, 2160>>}
AllEvents ==
    BasicEvents \cup {ClosedEvent, ReleaseEvent}
        \cup {ModeEvent(sz[1], sz[2], fl) : sz \in OutputSizes, fl \in ModeFlags}
        \cup {Event("configure", sz[1], sz[2], {}) : sz \in ConfigureSizes}

\* WaylandApp::new returned Ok (wayland.rs:57-156): `configured` says whether a
\* configure event arrived within the 20 roundtrips of the wait loop.
\*   held:   the compositor has the buffer of the last commit and has not
\*           released it (the compositor's state; WaylandApp keeps no such flag)
\*   offset: the pool offset of the buffer created last
\*   closed: the layer surface was closed
\*   roundtrips: the roundtrips WaylandApp::new made
\*   objects:    the objects WaylandApp::new created on the connection
\*   configured_width, configured_height: the size of the last configure (the
\*           compositor of the construction configures at the default size)
\*   buffer_size: the width and height of the buffer created last
\*   dispatched: the calls of dispatch_events that made their roundtrip (kept
\*           while the histories are kept)
WaylandAppNew(configured) ==
    [configured |-> configured, frame_count |-> 0,
     output_width |-> DefaultOutputWidth, output_height |-> DefaultOutputHeight,
     held |-> FALSE, offset |-> None, closed |-> FALSE,
     roundtrips |-> 0, objects |-> {},
     configured_width |-> IF configured THEN DefaultOutputWidth ELSE 0,
     configured_height |-> IF configured THEN DefaultOutputHeight ELSE 0,
     buffer_size |-> None, dispatched |-> 0]

AppNone == WaylandAppNew(FALSE)

(***************************************************************************)
(* WaylandApp::new (wayland.rs:57-156) against a compositor whose          *)
(* behaviour during the construction is                                    *)
(*   connect: Connection::connect_to_env succeeds                          *)
(*   adv[g]:  the roundtrip (counted from 1, the initial one) by which the *)
(*            registry has announced global g, or None if it never does    *)
(*   cfg:     the roundtrip after the surface's first commit by which the  *)
(*            layer surface's configure has arrived, or None               *)
(***************************************************************************)
RequiredGlobals == {"wl_compositor", "wl_shm", "zwlr_layer_shell_v1"}

\* wayland.rs:100 and 147: `iterations < 20`.
MaxIterations == 20

Server(connect, adv, cfg) == [connect |-> connect, adv |-> adv, cfg |-> cfg]

\* An arrival (Some(n) or None) has happened by roundtrip n.
Arrived(a, n) == IsSome(a) /\ Unwrap(a) <= n

\* app.compositor, app.shm and app.layer_shell are all Some after n roundtrips
\* (the registry handler binds a global when it is announced, wayland.rs:609-631).
GlobalsBound(srv, n) == \A g \in RequiredGlobals : Arrived(srv.adv[g], n)

RECURSIVE BindLoopUnbounded(_, _, _)
\* Faulty variant: the loop waits for the globals without a limit (cut off
\* well past the limit of the source).
BindLoopUnbounded(srv, n, iterations) ==
    IF ~GlobalsBound(srv, n) /\ iterations < 2 * MaxIterations
    THEN BindLoopUnbounded(srv, n + 1, iterations + 1)
    ELSE n

RECURSIVE BindLoop(_, _, _)
\* wayland.rs:98-103: the roundtrips made when the loop is left, n having been
\* made when it is entered.
BindLoop(srv, n, iterations) ==
    IF ~GlobalsBound(srv, n) /\ iterations < MaxIterations
    THEN BindLoop(srv, n + 1, iterations + 1)
    ELSE n

RECURSIVE ConfigureLoop(_, _, _)
\* wayland.rs:145-151: the roundtrips made after the commit when the loop is left.
ConfigureLoop(srv, k, iterations) ==
    IF ~Arrived(srv.cfg, k) /\ iterations < MaxIterations
    THEN ConfigureLoop(srv, k + 1, iterations + 1)
    ELSE k

\* WaylandApp::new: [ok |-> it returned Ok, app |-> the app it built].  When it
\* returns Err the app is dropped; its record tells what had been done.
WaylandApp_new(srv) ==
    IF ~srv.connect
    THEN [ok |-> FALSE, app |-> AppNone]
    ELSE LET n == BindLoop(srv, 1, 0)
         IN  IF ~GlobalsBound(srv, n)
             THEN [ok |-> FALSE, app |-> [AppNone EXCEPT !.roundtrips = n]]
             ELSE LET k == ConfigureLoop(srv, 0, 0)
                  IN  [ok |-> TRUE,
                       app |-> [WaylandAppNew(Arrived(srv.cfg, k)) EXCEPT
                                  !.roundtrips = n + k,
                                  !.objects = {"shm_pool", "surface", "layer_surface"}]]

\* Compositors: every global at once, late, too late or never; the configure
\* at once, at the last roundtrip, after it, or never.
GlobalArrivals == {Some(1), Some(MaxIterations + 1), Some(MaxIterations + 2), None}
ConfigureArrivals == {Some(1), Some(MaxIterations), Some(MaxIterations + 1), None}

AllServers ==
    {Server(c, adv, cfg) : c \in BOOLEAN,
                           adv \in [RequiredGlobals -> GlobalArrivals],
                           cfg \in ConfigureArrivals}

\* One compositor for each way WaylandApp::new can end: Err, Ok and configured,
\* Ok and not configured.
BasicServers ==
    {Server(FALSE, [g \in RequiredGlobals |-> Some(1)], Some(1)),
     Server(TRUE, [g \in RequiredGlobals |-> Some(1)], Some(1)),
     Server(TRUE, [g \in RequiredGlobals |-> Some(1)], None)}

\* render_frame (wayland.rs:158-242): the app afterwards, whether it returned Ok,
\* and whether the SHM file was written and the surface committed.  The frame
\* is written at the start of the file and the buffer created at offset 0; the
\* buffer of the frame before is destroyed.
\* (render_frame_unconfigured is render_frame without the test of `configured`
\* of wayland.rs:159-161.)
render_frame_unconfigured(app, f) ==
    LET scaled == f.width # app.output_width \/ f.height # app.output_height
        render_width == IF scaled THEN app.output_width ELSE f.width
        render_height == IF scaled THEN app.output_height ELSE f.height
        size == U32Size(render_width, render_height)
    IN  IF ExceedsPool(size)
        THEN [app |-> app, ok |-> FALSE, commit |-> FALSE]
        ELSE [app |-> [app EXCEPT !.frame_count = IF track THEN @ + 1 ELSE @,
                                  !.held = TRUE,
                                  !.offset = Some(0),
                                  !.buffer_size = Some(<<render_width, render_height>>)],
              ok |-> TRUE, commit |-> TRUE]

render_frame(app, f) ==
    IF ~app.configured
    THEN [app |-> app, ok |-> TRUE, commit |-> FALSE]
    ELSE LET scaled == f.width # app.output_width \/ f.height # app.output_height
             render_width == IF scaled THEN app.output_width ELSE f.width
             render_height == IF scaled THEN app.output_height ELSE f.height
             size == U32Size(render_width, render_height)
         IN  IF ExceedsPool(size)
             THEN [app |-> app, ok |-> FALSE, commit |-> FALSE]
             ELSE [app |-> [app EXCEPT !.frame_count = IF track THEN @ + 1 ELSE @,
                                       !.held = TRUE,
                                       !.offset = Some(0),
                                       !.buffer_size = Some(<<render_width, render_height>>)],
                   ok |-> TRUE, commit |-> TRUE]

\* The Dispatch handlers (wayland.rs:494-591) on one event of a roundtrip.  The
\* wl_buffer handler is empty; the handler of `closed` calls
\* std::process::exit(0).
Dispatch(app, ev) ==
    CASE ev.kind = "configure" ->
            [app EXCEPT !.configured = TRUE,
                        !.configured_width = ev.width,
                        !.configured_height = ev.height]
      [] ev.kind = "closed" -> [app EXCEPT !.closed = TRUE]
      [] ev.kind = "release" -> [app EXCEPT !.held = FALSE]
      [] ev.kind = "mode" ->
            IF ev.flags = {"current"}
            THEN [app EXCEPT !.output_width = ev.width, !.output_height = ev.height]
            ELSE app
      [] OTHER -> app

\* dispatch_events (wayland.rs:244-253): one roundtrip, whose event the handlers
\* process.
dispatch_events(app, ev) ==
    [Dispatch(app, ev) EXCEPT !.dispatched = IF track THEN @ + 1 ELSE @]

\* Whether the process goes on after the roundtrip.
ProcessAfter(app) == IF app.closed THEN "exited" ELSE "running"

(***************************************************************************)
(* The render task (render_frames_async, video_hw.rs:806-924).             *)
(*   pc: "none"  not spawned                                               *)
(*       "init"  before WaylandApp::new                                    *)
(*       "top"   at the loop condition                                     *)
(*       "sleep" in the 100 ms sleep of the paused branch                  *)
(*       "recv"  in rx.recv().await                                        *)
(*       "done"  returned                                                  *)
(***************************************************************************)
\*   lag: None until the first frame is received (first_frame_time is None);
\*        then Some(now - next_frame_time), in milliseconds, as it is when the
\*        iteration for a frame ends: 0 when the task slept until
\*        next_frame_time, else the time by which the pacing clock is behind
PresenterNone == [pc |-> "none", frame_count |-> 0, app |-> AppNone, lag |-> None]

\* The loop is detected for the frame received (video_hw.rs:839).
LoopDetected(frame_count, f) ==
    f.frame_time = DefaultFrameTimeMs /\ frame_count + 1 > LoopDetectFrames

\* Pacing (video_hw.rs:839-843, 858-863, 905-911): the lag after a frame f, when
\* `elapsed` ms of wall time went by since the pacing clock was last set: since
\* the end of the iteration before, or, when next_frame_time is set to `now` in
\* this iteration (first frame, loop detected), since then.  next_frame_time
\* advances by the frame's duration; if it is in the future the task sleeps
\* until then, and otherwise it goes on at once.
Pace(lag, frame_count, f, elapsed) ==
    LET before == IF ~IsSome(lag) \/ LoopDetected(frame_count, f) THEN 0 ELSE Unwrap(lag)
        now == before + elapsed - f.frame_time
    IN  IF now < 0 THEN 0 ELSE now

PresenterSpawned == [PresenterNone EXCEPT !.pc = "init"]

PresenterReturn(p, r) ==
    /\ pres' = [pres EXCEPT ![p] = [r EXCEPT !.pc = "done"]]
    /\ chan' = [chan EXCEPT ![p] = DropRx(@)]

\* video_hw.rs:813-819.  The roundtrips of WaylandApp::new run the same
\* handlers: besides the configure event they may deliver an output mode or
\* the surface's `closed`.
PresenterInit(p) ==
    /\ process = "running"
    /\ pres[p].pc = "init"
    /\ \E srv \in server :
        LET new == WaylandApp_new(srv)
        IN  IF ~new.ok
            THEN /\ PresenterReturn(p, [pres[p] EXCEPT !.app = new.app])
                 /\ UNCHANGED process
            ELSE \E ev \in {e \in compositor : e.kind \in {"none", "mode", "closed"}} :
                 LET app == Dispatch(new.app, ev)
                 IN  /\ pres' = [pres EXCEPT ![p] = [@ EXCEPT !.pc = "top", !.app = app]]
                     /\ process' = ProcessAfter(app)
                     /\ UNCHANGED chan
    /\ UNCHANGED <<ctlVars, inputVars, nPipe, owner, dec, hist>>

\* The loop's head (video_hw.rs:827-832): "stop", "pause" or "go".
PresenterHead(p) ==
    IF is_stopped[owner[p]] THEN "stop"
    ELSE IF is_paused[owner[p]] THEN "pause"
    ELSE "go"

\* video_hw.rs:827: the loop condition fails.
PresenterStop(p) ==
    /\ Running
    /\ pres[p].pc = "top"
    /\ PresenterHead(p) = "stop"
    /\ PresenterReturn(p, pres[p])
    /\ UNCHANGED <<ctlVars, inputVars, nPipe, owner, dec, hist>>

\* video_hw.rs:828-832: paused; sleep 100 ms ...
PresenterPause(p) ==
    /\ Running
    /\ pres[p].pc = "top"
    /\ PresenterHead(p) = "pause"
    /\ pres' = [pres EXCEPT ![p].pc = "sleep"]
    /\ UNCHANGED <<ctlVars, inputVars, nPipe, owner, dec, chan, hist>>

\* ... and test the loop condition again.
PresenterWake(p) ==
    /\ Running
    /\ pres[p].pc = "sleep"
    /\ pres' = [pres EXCEPT ![p].pc = "top"]
    /\ UNCHANGED <<ctlVars, inputVars, nPipe, owner, dec, chan, hist>>

\* video_hw.rs:835: neither flag is set; the task enters rx.recv().await.
PresenterEnterRecv(p) ==
    /\ Running
    /\ pres[p].pc = "top"
    /\ PresenterHead(p) = "go"
    /\ pres' = [pres EXCEPT ![p].pc = "recv"]
    /\ UNCHANGED <<ctlVars, inputVars, nPipe, owner, dec, chan, hist>>

\* video_hw.rs:837-844: the frame counter, reset when a loop is detected.  Above
\* LoopDetectFrames the counter is only compared with it; when no history is
\* kept it stays at LoopDetectFrames + 1.
PresenterCount(frame_count, f) ==
    LET n == frame_count + 1
    IN  IF f.frame_time = DefaultFrameTimeMs /\ n > LoopDetectFrames THEN 0
        ELSE IF ~track /\ n > LoopDetectFrames THEN LoopDetectFrames + 1
        ELSE n

\* video_hw.rs:835-917: one recv and, for a frame, everything up to the pacing sleep.
PresenterRecv(p) ==
    /\ process = "running"
    /\ pres[p].pc = "recv"
    /\ RecvReady(chan[p])
    /\ IF RecvIsNone(chan[p])
       THEN /\ PresenterReturn(p, pres[p])
            /\ UNCHANGED <<hist, process>>
       ELSE \E ev \in compositor, elapsed \in clock :
            LET f == ChanFront(chan[p])
                r == render_frame(pres[p].app, f)
                app == IF r.ok THEN dispatch_events(r.app, ev) ELSE r.app
            IN  /\ chan' = [chan EXCEPT ![p] = ChanPop(@)]
                /\ process' = ProcessAfter(app)
                /\ pres' = [pres EXCEPT ![p] =
                               [@ EXCEPT !.pc = "top",
                                         !.frame_count = PresenterCount(@, f),
                                         !.app = app,
                                         !.lag = Some(Pace(pres[p].lag,
                                                           pres[p].frame_count,
                                                           f, elapsed))]]
                /\ hist' = [hist EXCEPT ![p] =
                               [@ EXCEPT !.received = Log(@, f),
                                         !.committed = IF r.commit THEN Log(@, f) ELSE @]]
    /\ UNCHANGED <<ctlVars, inputVars, nPipe, owner, dec>>


(***************************************************************************)
(* VideoWallpaper's control methods (video_hw.rs:484-496): the value of    *)
(* the flag after the call, given its value before.  Each only logs.       *)
(***************************************************************************)
\* VideoWallpaper::stop: is_stopped afterwards.
VideoWallpaper_stop(stopped) == stopped

\* Wallpaper::pause for VideoWallpaper: is_paused afterwards.
VideoWallpaper_pause(paused) == paused

\* Wallpaper::play for VideoWallpaper: is_paused afterwards.
VideoWallpaper_play(paused) == paused

\* Whether run() may spawn: it spawns whatever tasks already exist.
RunGuard(w) == TRUE

\* Wallpaper::run for VideoWallpaper (video_hw.rs:498-521): a new channel, a new
\* decode task and a new render task, sharing the wallpaper's two flags.
Spawn(w) ==
    /\ nPipe < MaxPipes
    /\ nPipe' = nPipe + 1
    /\ owner' = [owner EXCEPT ![nPipe + 1] = w]
    /\ dec' = [dec EXCEPT ![nPipe + 1] = DecoderSpawned]
    /\ pres' = [pres EXCEPT ![nPipe + 1] = PresenterSpawned]
    /\ chan' = [chan EXCEPT ![nPipe + 1] = ChanNew]
    /\ UNCHANGED hist

VideoWallpaper_run(w) ==
    IF RunGuard(w) THEN Spawn(w) ELSE UNCHANGED pipeVars

OpNone == [op |-> "none", w |-> 0]
Op(name, w) == [op |-> name, w |-> w]

(***************************************************************************)
(* examples/video_test.rs: a VideoWallpaper of the program's own; main     *)
(* runs it, sleeps 30 s and calls stop().                                  *)
(***************************************************************************)
\* video_test.rs:16-51: VideoWallpaper::new (video_hw.rs:466-477), then run().
ExampleRun ==
    /\ Running
    /\ context = "example"
    /\ nWall = 0
    /\ nWall' = 1
    /\ wstate' = [wstate EXCEPT ![1] = "standalone"]
    /\ VideoWallpaper_run(1)
    /\ last_op' = Op("run", 1)
    /\ UNCHANGED <<is_paused, is_stopped, wallpaper, is_running, inputVars>>

\* video_test.rs:58: VideoWallpaper::stop (video_hw.rs:484-486).
ExampleStop ==
    /\ Running
    /\ context = "example"
    /\ wstate[1] = "standalone"
    /\ last_op.op = "run"
    /\ is_stopped' = [is_stopped EXCEPT ![1] = VideoWallpaper_stop(@)]
    /\ last_op' = Op("stop", 1)
    /\ UNCHANGED <<nWall, wstate, is_paused, wallpaper, is_running, pipeVars, inputVars>>

(***************************************************************************)
(* The Player (player.rs), called from synchronous code.                   *)
(***************************************************************************)
\* The wallpaper the Player held is dropped; w takes its place.
ReplaceCurrent(ws, w) ==
    [x \in Wallpapers |->
        IF x = w THEN "player" ELSE IF x = wallpaper THEN "dropped" ELSE ws[x]]

\* set_wallpaper pauses the wallpaper it replaces (player.rs:26-28).
PauseCurrent ==
    IF wallpaper # 0
    THEN [is_paused EXCEPT ![wallpaper] = VideoWallpaper_pause(@)]
    ELSE is_paused

\* Player::set_wallpaper (player.rs:24-32), with a new VideoWallpaper.
PlayerSetWallpaper ==
    /\ Running
    /\ context = "lib"
    /\ nWall < MaxWallpapers
    /\ nWall' = nWall + 1
    /\ is_paused' = PauseCurrent
    /\ wstate' = ReplaceCurrent(wstate, nWall + 1)
    /\ wallpaper' = nWall + 1
    /\ is_running' = TRUE
    /\ last_op' = Op("set_wallpaper", nWall + 1)
    /\ UNCHANGED <<is_stopped, pipeVars, inputVars>>

\* Player::play (player.rs:35-40)
PlayerPlay ==
    /\ Running
    /\ context = "lib"
    /\ wallpaper # 0
    /\ is_paused' = [is_paused EXCEPT ![wallpaper] = VideoWallpaper_play(@)]
    /\ is_running' = TRUE
    /\ last_op' = Op("play", wallpaper)
    /\ UNCHANGED <<nWall, wstate, is_stopped, wallpaper, pipeVars, inputVars>>

\* Player::pause (player.rs:43-48)
PlayerPause ==
    /\ Running
    /\ context = "lib"
    /\ wallpaper # 0
    /\ is_paused' = [is_paused EXCEPT ![wallpaper] = VideoWallpaper_pause(@)]
    /\ is_running' = FALSE
    /\ last_op' = Op("pause", wallpaper)
    /\ UNCHANGED <<nWall, wstate, is_stopped, wallpaper, pipeVars, inputVars>>

\* Player::run (player.rs:51-56)
PlayerRun ==
    /\ Running
    /\ context = "lib"
    /\ wallpaper # 0
    /\ nPipe < MaxPipes
    /\ VideoWallpaper_run(wallpaper)
    /\ is_running' = TRUE
    /\ last_op' = Op("run", wallpaper)
    /\ UNCHANGED <<nWall, wstate, is_paused, is_stopped, wallpaper, inputVars>>

\* Player::stop (player.rs:59-64): it calls the wallpaper's pause().
PlayerStop ==
    /\ Running
    /\ context = "lib"
    /\ wallpaper # 0
    /\ is_paused' = [is_paused EXCEPT ![wallpaper] = VideoWallpaper_pause(@)]
    /\ is_running' = FALSE
    /\ last_op' = Op("stop", wallpaper)
    /\ UNCHANGED <<nWall, wstate, is_stopped, wallpaper, pipeVars, inputVars>>

\* Player::clear (player.rs:79-82): stop(), then the wallpaper is dropped.
PlayerClear ==
    /\ Running
    /\ context = "lib"
    /\ wallpaper # 0
    /\ is_paused' = [is_paused EXCEPT ![wallpaper] = VideoWallpaper_pause(@)]
    /\ is_running' = FALSE
    /\ wstate' = [wstate EXCEPT ![wallpaper] = "dropped"]
    /\ wallpaper' = 0
    /\ last_op' = Op("clear", wallpaper)
    /\ UNCHANGED <<nWall, is_stopped, pipeVars, inputVars>>

(***************************************************************************)
(* The daemon (ipc/server.rs:91-165).  handle_request runs on a runtime    *)
(* worker, where tokio's Mutex::blocking_lock panics: a Player method that *)
(* reaches its `*self.is_running.blocking_lock() = ..` line unwinds there, *)
(* the handler's task ends and the Player's lock is released.              *)
(***************************************************************************)
\* SetWallpaper (server.rs:96-144): set_wallpaper unwinds at player.rs:31, after
\* the new wallpaper has replaced the old one; player.run() is not reached.
HandleSetWallpaper ==
    /\ Running
    /\ context = "daemon"
    /\ nWall < MaxWallpapers
    /\ nWall' = nWall + 1
    /\ is_paused' = PauseCurrent
    /\ wstate' = ReplaceCurrent(wstate, nWall + 1)
    /\ wallpaper' = nWall + 1
    /\ last_op' = Op("set_wallpaper", nWall + 1)
    /\ UNCHANGED <<is_stopped, is_running, pipeVars, inputVars>>

\* Shutdown (server.rs:155-163): with a wallpaper set, stop() unwinds at
\* player.rs:62 after pause(); with none, stop() and clear() change nothing.
HandleShutdown ==
    /\ Running
    /\ context = "daemon"
    /\ wallpaper # 0
    /\ is_paused' = [is_paused EXCEPT ![wallpaper] = VideoWallpaper_pause(@)]
    /\ last_op' = Op("stop", wallpaper)
    /\ UNCHANGED <<nWall, wstate, is_stopped, wallpaper, is_running, pipeVars, inputVars>>

(***************************************************************************)
(* The program, as the source has it.                                      *)
(***************************************************************************)
\* since_pause: the frames sent while the pause flag was set, since it was set last.
HistNone == [sent |-> <<>>, received |-> <<>>, committed |-> <<>>, since_pause |-> 0]

\* No call of a scaling function is under way.
CallNone == [pc |-> "none"]

IdleState ==
    /\ nWall = 0
    /\ wstate = [w \in Wallpapers |-> "unborn"]
    /\ is_paused = [w \in Wallpapers |-> FALSE]
    /\ is_stopped = [w \in Wallpapers |-> FALSE]
    /\ wallpaper = 0
    /\ is_running = FALSE
    /\ nPipe = 0
    /\ owner = [p \in Pipes |-> 0]
    /\ dec = [p \in Pipes |-> DecoderNone]
    /\ chan = [p \in Pipes |-> ChanNone]
    /\ pres = [p \in Pipes |-> PresenterNone]
    /\ last_op = OpNone
    /\ hist = [p \in Pipes |-> HistNone]
    /\ process = "running"

InitState ==
    /\ IdleState
    /\ scale_call = CallNone

\* The input of the control specification: a file of one frame, played in a loop.
CtlVideos == {<<Packet("frame", PtsStep)>>}

Init ==
    /\ InitState
    /\ context \in {"lib", "daemon", "example"}
    /\ video \in CtlVideos
    /\ time_base = <<1, 1000>>
    /\ track = TRUE
    /\ compositor = BasicEvents
    /\ server = BasicServers
    /\ capacity = ChannelCapacity
    /\ clock = {0}

\* The steps of the two tasks that the source's control operations can bring
\* about: no operation of the source writes is_paused or is_stopped.
DecoderStep(p) ==
    \/ DecoderOpen(p)
    \/ DecoderEof(p)
    \/ DecoderPacket(p)
    \/ DecoderSend(p)

PresenterStep(p) ==
    \/ PresenterInit(p)
    \/ PresenterEnterRecv(p)
    \/ PresenterRecv(p)

Next ==
    \/ ExampleRun
    \/ ExampleStop
    \/ PlayerSetWallpaper
    \/ PlayerPlay
    \/ PlayerPause
    \/ PlayerRun
    \/ PlayerStop
    \/ PlayerClear
    \/ HandleSetWallpaper
    \/ HandleShutdown
    \/ \E p \in Pipes : DecoderStep(p)
    \/ \E p \in Pipes : PresenterStep(p)

Spec == Init /\ [][Next]_vars

(***************************************************************************)
(* One pipeline on every input: the example program runs its wallpaper on  *)
(* any file of Videos, under either time base.                             *)
(***************************************************************************)
\* 1/1000 s per PTS unit (frame durations of PtsStep ms), and 1/25 s per unit
\* (durations of 1000 ms and more, which the decoder does not accept).
TimeBases == {<<1, 1000>>, <<1, 25>>}

PipeInit ==
    /\ InitState
    /\ context = "example"
    /\ video \in Videos \cup PtsVideos \cup LinesizeVideos
    /\ time_base \in TimeBases
    /\ track = TRUE
    /\ compositor = BasicEvents
    /\ server = BasicServers
    /\ capacity = ChannelCapacity
    /\ clock = {0}

PipeNext ==
    \/ ExampleRun
    \/ ExampleStop
    \/ DecoderStep(1)
    \/ PresenterStep(1)

PipeSpec == PipeInit /\ [][PipeNext]_vars

\* The tasks of pipeline p that have not returned.
DecoderLive(p) == dec[p].pc \notin {"none", "done"}
PresenterLive(p) == pres[p].pc \notin {"none", "done"}

\* Wallpaper w has been run: a pipeline was spawned for it.
HasPipeline(w) == \E p \in Pipes : owner[p] = w

(***************************************************************************)
(* The flags at work.  No operation of the source writes is_stopped or     *)
(* is_paused (stop, pause and play only log), so the branches of the two   *)
(* tasks that read them are exercised here with the writes the             *)
(* specification gives to its control surface: stop() sets the cancel      *)
(* flag, pause() sets the pause flag and resume() clears it.  No history   *)
(* is kept (track = FALSE): the playback loops for ever.                   *)
(***************************************************************************)
SpecStop(w) ==
    /\ Running
    /\ HasPipeline(w)
    /\ ~is_stopped[w]
    /\ is_stopped' = [is_stopped EXCEPT ![w] = TRUE]
    /\ UNCHANGED <<nWall, wstate, is_paused, wallpaper, is_running, last_op,
                   pipeVars, inputVars>>

SpecPause(w) ==
    /\ Running
    /\ HasPipeline(w)
    /\ ~is_paused[w]
    /\ is_paused' = [is_paused EXCEPT ![w] = TRUE]
    /\ hist' = [p \in Pipes |->
                   IF owner[p] = w THEN [hist[p] EXCEPT !.since_pause = 0] ELSE hist[p]]
    /\ UNCHANGED <<nWall, wstate, is_stopped, wallpaper, is_running, last_op,
                   nPipe, owner, dec, chan, pres, inputVars>>

SpecResume(w) ==
    /\ Running
    /\ HasPipeline(w)
    /\ is_paused[w]
    /\ is_paused' = [is_paused EXCEPT ![w] = FALSE]
    /\ UNCHANGED <<nWall, wstate, is_stopped, wallpaper, is_running, last_op,
                   pipeVars, inputVars>>

\* Every step of the decode task and of the render task.
DecoderRun(p) ==
    \/ DecoderStep(p)
    \/ DecoderStop(p)
    \/ DecoderPause(p)
    \/ DecoderWake(p)

PresenterRun(p) ==
    \/ PresenterStep(p)
    \/ PresenterStop(p)
    \/ PresenterPause(p)
    \/ PresenterWake(p)

\* A file of PauseCheckEvery frames, and a file of one frame.
FlagVideos ==
    {[i \in 1..PauseCheckEvery |-> Packet("frame", i * PtsStep)],
     <<Packet("frame", PtsStep)>>}

FlagInit ==
    /\ InitState
    /\ context = "example"
    /\ video \in FlagVideos
    /\ time_base = <<1, 25>>
    /\ track = FALSE
    /\ compositor = BasicEvents
    /\ server = BasicServers
    /\ capacity = ChannelCapacity
    /\ clock = {0}

FlagNext ==
    \/ ExampleRun
    \/ SpecStop(1)
    \/ SpecPause(1)
    \/ SpecResume(1)
    \/ DecoderRun(1)
    \/ PresenterRun(1)

\* The runtime schedules every task that can run: the decode task has a
\* blocking thread of its own, the render task a worker of the runtime.
FlagSpec ==
    /\ FlagInit
    /\ [][FlagNext]_vars
    /\ WF_vars(DecoderRun(1))
    /\ WF_vars(PresenterRun(1))

(***************************************************************************)
(* One pipeline under a compositor that sends every event: the example     *)
(* program on a file of two frames.                                        *)
(***************************************************************************)
RenderVideos == {<<Packet("frame", PtsStep), Packet("frame", 2 * PtsStep)>>}

RenderInit ==
    /\ InitState
    /\ context = "example"
    /\ video \in RenderVideos
    /\ time_base = <<1, 1000>>
    /\ track = TRUE
    /\ compositor = AllEvents
    /\ server = BasicServers
    /\ capacity = ChannelCapacity
    /\ clock = {0}

RenderNext ==
    \/ ExampleRun
    \/ DecoderStep(1)
    \/ PresenterStep(1)

RenderSpec == RenderInit /\ [][RenderNext]_vars

(***************************************************************************)
(* Properties of one pipeline (checked under PipeSpec).                    *)
(***************************************************************************)
IsPrefix(s, t) == Len(s) <= Len(t) /\ SubSeq(t, 1, Len(s)) = s

\* s is t with some elements left out.
RECURSIVE IsSubSeq(_, _)
IsSubSeq(s, t) ==
    IF s = <<>> THEN TRUE
    ELSE IF t = <<>> THEN FALSE
    ELSE IF Head(s) = Head(t) THEN IsSubSeq(Tail(s), Tail(t))
    ELSE IsSubSeq(s, Tail(t))

\* C3: the frame channel is FIFO and lossless: the frames the Presenter has
\* received are a prefix of the frames the Decoder has sent, and while the
\* receiver lives the frames sent are exactly the frames received followed by
\* the frames queued (nothing reordered, duplicated, merged or dropped).
C3_FifoLossless ==
    \A p \in Pipes :
        /\ IsPrefix(hist[p].received, hist[p].sent)
        /\ chan[p].rx => hist[p].sent = hist[p].received \o chan[p].q

\* The consumer was slow: the channel filled up, and frames were received
\* after that.
C3_Witness ==
    \E p \in Pipes :
        /\ Len(hist[p].sent) > ChannelCapacity
        /\ Len(hist[p].received) >= ChannelCapacity

\* C4: frames are committed in the order the Presenter received them, and
\* within one playback epoch every committed frame has a decode index strictly
\* greater than the frame committed before it.
C4_CommitOrder ==
    \A p \in Pipes :
        LET c == hist[p].committed
        IN  /\ IsSubSeq(c, hist[p].received)
            /\ \A i \in 1..(Len(c) - 1) :
                  /\ c[i].epoch <= c[i + 1].epoch
                  /\ c[i].epoch = c[i + 1].epoch => c[i].idx < c[i + 1].idx

\* Two frames of one epoch were committed after the channel had been full.
C4_Witness ==
    \E p \in Pipes :
        LET c == hist[p].committed
        IN  /\ Len(hist[p].sent) > ChannelCapacity
            /\ \E i \in 1..(Len(c) - 1) : c[i].epoch = c[i + 1].epoch

\* C7: the number of frames in the frame channel never exceeds its capacity.
C7_Capacity == \A p \in Pipes : Len(chan[p].q) <= ChannelCapacity

\* The channel is full and the Decoder waits in send with the next frame.
C7_Witness ==
    \E p \in Pipes : Len(chan[p].q) = ChannelCapacity /\ dec[p].pc = "send"

\* The Decoder is suspended in send: the channel is full and its receiver lives.
Suspended(p) ==
    dec[p].pc = "send" /\ chan[p].rx /\ Len(chan[p].q) = ChannelCapacity

\* The Presenter received a frame in this step.
Received(p) == hist'[p].received # hist[p].received

\* C5 (as claimed): while the channel is full the Decoder's send stays
\* suspended, the frame kept and no further packet decoded, and the suspension
\* ends only when the Presenter has freed a slot or the cancel flag is set.
C5_Original ==
    [][\A p \in Pipes :
          Suspended(p) =>
              /\ dec'[p] = dec[p]
              /\ Suspended(p)' \/ Received(p) \/ is_stopped'[owner[p]]]_vars

\* C5 (amended): the suspension ends only when the Presenter has freed a slot
\* or has returned and dropped the receiver; a send that completes on a live
\* receiver has queued its frame behind the others, a send on a dropped
\* receiver fails and ends the Decoder.
C5_Backpressure ==
    [][\A p \in Pipes :
          /\ Suspended(p) =>
                /\ dec'[p] = dec[p]
                /\ Suspended(p)' \/ Received(p) \/ ~chan'[p].rx
          /\ (dec[p].pc = "send" /\ dec'[p].pc # "send") =>
                IF chan[p].rx
                THEN /\ Len(chan[p].q) < ChannelCapacity
                     /\ chan'[p].q = Append(chan[p].q, Unwrap(dec[p].pending))
                     /\ dec'[p].pc = "top"
                ELSE /\ dec'[p].pc = "done"
                     /\ dec'[p].result = "disconnected"
                     /\ hist'[p].sent = hist[p].sent]_vars

\* The Decoder is suspended on the full channel again, after the Presenter has
\* already received frames.
C5_Witness == \E p \in Pipes : Suspended(p) /\ Len(hist[p].received) > 0

\* The Presenter completes a receive on a channel whose sender is gone.
RecvAfterClose(p) ==
    ~chan[p].tx /\ pres[p].pc = "recv" /\ pres'[p] # pres[p]

\* Once returned, the Presenter stays so and receives and commits nothing.
PresenterDoneIsFinal(p) ==
    pres[p].pc = "done" =>
        /\ pres'[p].pc = "done"
        /\ hist'[p].received = hist[p].received
        /\ hist'[p].committed = hist[p].committed

\* C6 (as claimed): once the send side is closed the Presenter's next receive
\* returns end-of-stream; the Presenter then leaves its loop and commits no
\* further frame.
C6_Original ==
    [][\A p \in Pipes :
          /\ RecvAfterClose(p) => pres'[p].pc = "done"
          /\ PresenterDoneIsFinal(p)]_vars

\* C6 (amended): once the send side is closed the Presenter's receives return
\* the frames still queued, oldest first; the first receive that finds the
\* queue empty returns end-of-stream, and the Presenter then leaves its loop
\* and commits no further frame.
C6_EndOfStream ==
    [][\A p \in Pipes :
          /\ RecvAfterClose(p) =>
                IF Len(chan[p].q) = 0
                THEN pres'[p].pc = "done"
                ELSE /\ pres'[p].pc = "top"
                     /\ hist'[p].received = Append(hist[p].received, Head(chan[p].q))
                     /\ chan'[p].q = Tail(chan[p].q)
          /\ PresenterDoneIsFinal(p)]_vars

\* The Decoder returned on a decode error after sending frames; the Presenter
\* received them all and then returned.
C6_Witness ==
    \E p \in Pipes :
        /\ dec[p].result = "decode_error"
        /\ pres[p].pc = "done"
        /\ Len(hist[p].sent) > 0
        /\ hist[p].received = hist[p].sent

(***************************************************************************)
(* Properties of the control operations (checked under Spec).              *)
(***************************************************************************)
\* C2: when stop() has returned on a wallpaper that was run, the wallpaper's
\* cancel flag is set (so that its two tasks exit).
C2_StopSetsCancel ==
    (last_op.op = "stop" /\ HasPipeline(last_op.w)) => is_stopped[last_op.w]

\* C8: a wallpaper has at most one Decoder task and at most one Presenter task
\* at any time: run() on a wallpaper whose tasks exist spawns nothing.
C8_OnePipelinePerWallpaper ==
    \A w \in Wallpapers :
        /\ Cardinality({p \in Pipes : owner[p] = w /\ DecoderLive(p)}) <= 1
        /\ Cardinality({p \in Pipes : owner[p] = w /\ PresenterLive(p)}) <= 1

\* C9: after a swap, once the pipeline of the Player's new wallpaper has
\* committed a frame, the pipeline of the wallpaper it replaced commits no more.
C9_SwapStopsPrevious ==
    [][\A p, q \in Pipes :
          (/\ owner[p] # 0 /\ wstate[owner[p]] = "dropped"
           /\ owner[q] # 0 /\ owner[q] = wallpaper
           /\ Len(hist[q].committed) > 0)
          => hist'[p].committed = hist[p].committed]_vars

\* C10: when pause() has returned on a wallpaper that was run its pause flag is
\* set, and when play() has returned the flag is clear.
C10_PauseResume ==
    /\ (last_op.op = "pause" /\ HasPipeline(last_op.w)) => is_paused[last_op.w]
    /\ (last_op.op = "play" /\ HasPipeline(last_op.w)) => ~is_paused[last_op.w]

(***************************************************************************)
(* Properties of the tasks' reading of the flags (checked under FlagSpec). *)
(***************************************************************************)
\* C1: once the cancel flag of a pipeline's wallpaper is set, the pipeline's
\* Decoder task and Presenter task both return eventually, whatever state the
\* pipeline is in.
C1_CancelExits ==
    \A p \in Pipes :
        (owner[p] # 0 /\ is_stopped[owner[p]])
            ~> (dec[p].pc = "done" /\ pres[p].pc = "done")

\* C23: when the cancel flag is set while the Decoder is in its paused sleep,
\* the Decoder returns eventually.
C23_CancelWhilePaused ==
    \A p \in Pipes :
        (/\ owner[p] # 0
         /\ is_stopped[owner[p]]
         /\ is_paused[owner[p]]
         /\ dec[p].pc = "sleep")
            ~> (dec[p].pc = "done")

\* C24: with the cancel flag set, the Decoder at the top of its loop does not
\* go on to decode a frame and send it (so that at most the frame that was in
\* flight when the flag was set is sent).
C24_CancelCheckedEveryFrame ==
    [][\A p \in Pipes :
          (owner[p] # 0 /\ is_stopped[owner[p]] /\ dec[p].pc = "top")
              => dec'[p].pc # "send"]_vars

(***************************************************************************)
(* PauseSpec: one pipeline of the example on a file one frame longer than  *)
(* the pause check's period, with the pause flag set and cleared at any    *)
(* time (the writes spec.md gives to pause() and resume()); the cancel     *)
(* flag stays clear.  Histories are kept.  The channel has room for the    *)
(* frames of a whole period (the source's has 60 slots), so that a paused  *)
(* Presenter does not hold the Decoder back before its next check.         *)
(***************************************************************************)
PauseVideos == {[i \in 1..(PauseCheckEvery + 1) |-> Packet("frame", i * PtsStep)]}

PauseInit ==
    /\ InitState
    /\ context = "example"
    /\ video \in PauseVideos
    /\ time_base = <<1, 1000>>
    /\ track = TRUE
    /\ compositor = BasicEvents
    /\ server = BasicServers
    /\ capacity = PauseCheckEvery + ChannelCapacity
    /\ clock = {0}

PauseNext ==
    \/ ExampleRun
    \/ SpecPause(1)
    \/ SpecResume(1)
    \/ DecoderStep(1)
    \/ DecoderPause(1)
    \/ DecoderWake(1)
    \/ PresenterStep(1)
    \/ PresenterPause(1)
    \/ PresenterWake(1)

PauseSpec == PauseInit /\ [][PauseNext]_vars

\* C25: while the pause flag stays set the Decoder sends at most
\* PauseCheckEvery further frames; at a check (a frame count that is a multiple
\* of PauseCheckEvery) with the flag set it reads no packet and goes to sleep,
\* after the sleep it is back at the check having read and sent nothing, and at
\* a check with the flag clear it does not sleep.
C25_PauseEveryTenFrames ==
    [][\A p \in Pipes :
          owner[p] # 0 =>
            /\ is_paused'[owner[p]] => hist'[p].since_pause <= PauseCheckEvery
            /\ (/\ is_paused[owner[p]]
                /\ dec[p].pc = "top"
                /\ dec[p].frame_count % PauseCheckEvery = 0)
                 => (dec'[p] = dec[p] \/ dec'[p] = [dec[p] EXCEPT !.pc = "sleep"])
            /\ dec[p].pc = "sleep"
                 => /\ dec'[p] = dec[p] \/ dec'[p] = [dec[p] EXCEPT !.pc = "top"]
                    /\ hist'[p].sent = hist[p].sent
            /\ (~is_paused[owner[p]] /\ dec[p].pc = "top")
                 => dec'[p].pc # "sleep"]_vars

\* The Decoder sleeps in its paused branch having sent PauseCheckEvery frames
\* since the pause flag was set.
C25_Witness ==
    \E p \in Pipes :
        /\ owner[p] # 0
        /\ is_paused[owner[p]]
        /\ dec[p].pc = "sleep"
        /\ hist[p].since_pause = PauseCheckEvery

(***************************************************************************)
(* Properties of rendering (checked under RenderSpec).                     *)
(***************************************************************************)
\* The Presenter takes a frame from the channel in this step.
Takes(p) == pres[p].pc = "recv" /\ hist'[p].received # hist[p].received

\* The Presenter writes the frame it takes to the pool and commits it.
Commits(p) == Takes(p) /\ hist'[p].committed # hist[p].committed

\* The frame at the head of the channel, at the size render_frame gives it,
\* has more bytes than the pool.
Oversized(p) ==
    LET app == pres[p].app
        f == Head(chan[p].q)
        scaled == f.width # app.output_width \/ f.height # app.output_height
    IN  IF scaled
        THEN Blocks(app.output_width, app.output_height) > pool_size \div BlockBytes
        ELSE Blocks(f.width, f.height) > pool_size \div BlockBytes

\* C11: the layer surface's `closed` stops the pipeline and leaves the process
\* running, so that a later start can succeed in it.
C11_ClosedStopsPipeline ==
    \A p \in Pipes : pres[p].app.closed => process = "running"

\* C12: a frame larger than the SHM pool is dropped: nothing is written, no
\* buffer is created or committed, and the Presenter goes on to the next frame.
C12_FrameTooLarge ==
    [][\A p \in Pipes :
          (Takes(p) /\ pres[p].app.configured /\ Oversized(p)) =>
              /\ ~Commits(p)
              /\ pres'[p].app.offset = pres[p].app.offset
              /\ pres'[p].pc = "top"]_vars

\* C17: a frame is written to the pool and its buffer attached only when the
\* compositor has released the buffer that occupies the same pool memory.
C17_ReleaseBeforeReuse ==
    [][\A p \in Pipes : Commits(p) => ~pres[p].app.held]_vars

\* C18: two frames committed one after the other never lie at the same pool
\* offset.
C18_BufferRotation ==
    [][\A p \in Pipes :
          Commits(p) => pres'[p].app.offset # pres[p].app.offset]_vars

(***************************************************************************)
(* LongSpec: one pipeline of the example on a constant 30 fps file that is *)
(* longer than the Presenter's loop-detection threshold: the time base is  *)
(* 1/30 and the PTS advances by one, so that every frame's duration is     *)
(* 33 ms.                                                                  *)
(***************************************************************************)
LongLen == LoopDetectFrames + ChannelCapacity + 3

LongVideo == [i \in 1..LongLen |-> Packet("frame", i)]

LongInit ==
    /\ InitState
    /\ context = "example"
    /\ video = LongVideo
    /\ time_base = <<1, 30>>
    /\ track = TRUE
    /\ compositor = BasicEvents
    /\ server = BasicServers
    /\ capacity = ChannelCapacity
    /\ clock = {0}

LongSpec == LongInit /\ [][RenderNext]_vars

\* The Presenter takes a frame and resets its frame count and pacing clock
\* (video_hw.rs:839-844).
PresenterReset(p) == Takes(p) /\ pres'[p].frame_count = 0

\* C19: the Presenter performs no loop reset while the Decoder has not reached
\* the end of the file.
C19_NoResetWithoutLoop ==
    [][\A p \in Pipes : PresenterReset(p) => dec[p].epoch > 0]_vars

(***************************************************************************)
(* Properties of decoding (checked under PipeSpec).                        *)
(***************************************************************************)
\* Every frame the Decoder has handed or is handing to the channel.
FramesOut(p) ==
    {hist[p].sent[i] : i \in 1..Len(hist[p].sent)}
        \cup {chan[p].q[i] : i \in 1..Len(chan[p].q)}
        \cup (IF IsSome(dec[p].pending) THEN {Unwrap(dec[p].pending)} ELSE {})

ErrorKinds == {"senderr", "recverr"}

\* C13: a failure to set up the hardware backend does not end the decode task
\* (the Decoder goes on in software).
C13_HardwareFallback ==
    \A p \in Pipes : ~(dec[p].pc = "done" /\ dec[p].result = "hw_init_failed")

\* C14: the Decoder ends on a decode error only when the last three packets it
\* read all failed to decode.
C14_ThreeStrikes ==
    \A p \in Pipes :
        dec[p].result = "decode_error" =>
            /\ dec[p].pos > 3
            /\ \A i \in 1..3 : video[dec[p].pos - i].kind \in ErrorKinds

\* C15: every frame handed to the channel carries a duration of 1..999 ms.
C15_DurationRange ==
    \A p \in Pipes : \A f \in FramesOut(p) : f.frame_time >= 1 /\ f.frame_time <= 999

\* A file whose PTS does not advance at some frame was decoded to its end, and
\* one of its frames got a duration computed from the PTS.
C15_Witness ==
    \E p \in Pipes :
        /\ \E i \in 2..Len(video) : video[i].pts <= video[i - 1].pts
        /\ Len(hist[p].sent) >= Len(video)
        /\ \E i \in 1..Len(hist[p].sent) :
              hist[p].sent[i].frame_time # DefaultFrameTimeMs

\* C16: every frame handed to the channel is tightly packed BGRA of the output
\* size: width * 4 * height bytes.
C16_TightlyPacked ==
    \A p \in Pipes : \A f \in FramesOut(p) :
        /\ f.width = DecoderOutputWidth
        /\ f.height = DecoderOutputHeight
        /\ f.len = (f.width * 4) * f.height

\* A frame decoded with row padding was sent.
C16_Witness ==
    \E p \in Pipes :
        /\ video[1].kind = "frame"
        /\ video[1].linesize > DecoderOutputWidth * 4
        /\ Len(hist[p].sent) > 0

\* The Decoder decodes a frame in this step: it leaves the top of its loop with
\* a frame to send.
Decodes(p) == dec[p].pc = "top" /\ dec'[p].pc = "send"

\* C26: the duration of a frame is DefaultFrameTimeMs when the epoch has no
\* earlier PTS and when the PTS difference in milliseconds is outside 1..999,
\* and that difference otherwise.
C26_DurationDefault ==
    [][\A p \in Pipes :
          Decodes(p) =>
            LET d == dec[p]
                f == Unwrap(dec'[p].pending)
                time_ms == TimeMs(video[d.pos].pts - Unwrap(d.last_pts), time_base)
            IN  f.frame_time =
                    IF IsSome(d.last_pts) /\ time_ms >= 1 /\ time_ms <= 999
                    THEN time_ms
                    ELSE DefaultFrameTimeMs]_vars

\* Frame i of the frames sent is the first one of its epoch.
FirstOfEpoch(sent, i) == i = 1 \/ sent[i - 1].epoch # sent[i].epoch

\* C27: the end of the file starts a new epoch: the frame count restarts, the
\* PTS of the last frame is forgotten and the first frame sent in every epoch
\* has index 1 and the duration DefaultFrameTimeMs; within an epoch the index
\* grows.
C27_LoopResets ==
    \A p \in Pipes :
        /\ (dec[p].pc = "top" /\ dec[p].frame_count = 0) =>
               (dec[p].last_pts = None /\ dec[p].frame_time_ms = DefaultFrameTimeMs)
        /\ \A i \in 1..Len(hist[p].sent) :
               LET sent == hist[p].sent
               IN  IF FirstOfEpoch(sent, i)
                   THEN sent[i].idx = 1 /\ sent[i].frame_time = DefaultFrameTimeMs
                   ELSE sent[i].idx > sent[i - 1].idx

\* A frame of the second epoch was sent after a frame of the first that was not
\* its first frame and had a duration computed from the PTS.
C27_Witness ==
    \E p \in Pipes : \E i \in 2..Len(hist[p].sent) :
        LET sent == hist[p].sent
        IN  /\ sent[i].epoch > sent[i - 1].epoch
            /\ sent[i - 1].idx > 1
            /\ sent[i - 1].frame_time # DefaultFrameTimeMs

\* C28: handling the end of the file puts the demuxer back at the start of the
\* file (by the seek, or else by opening the file again), so that the next read
\* yields a packet.
C28_LoopRewinds ==
    [][\A p \in Pipes :
          (/\ dec[p].pc = "top"
           /\ dec'[p].pc = "top"
           /\ dec[p].pos > Len(video)
           /\ dec'[p] # dec[p])
          => dec'[p].pos <= Len(video)]_vars

(***************************************************************************)
(* BurstSpec: one pipeline of the example on files in which one packet     *)
(* makes the codec have two frames ready.                                  *)
(***************************************************************************)
BurstVideos ==
    {<<Packet("burst", PtsStep), Packet("frame", 3 * PtsStep)>>,
     <<Packet("frame", PtsStep), Packet("burst", 2 * PtsStep)>>,
     <<Packet("burst", PtsStep), Packet("again", 3 * PtsStep)>>}

BurstInit ==
    /\ InitState
    /\ context = "example"
    /\ video \in BurstVideos
    /\ time_base = <<1, 1000>>
    /\ track = TRUE
    /\ compositor = BasicEvents
    /\ server = BasicServers
    /\ capacity = ChannelCapacity
    /\ clock = {0}

BurstSpec == BurstInit /\ [][RenderNext]_vars

\* C29: when the Decoder is at the top of its loop, about to read the next
\* packet, the codec holds no frame that is ready and was not received.
C29_CodecDrained ==
    \A p \in Pipes : dec[p].pc = "top" => dec[p].codec = <<>>

(***************************************************************************)
(* PaceSpec: one pipeline of the example on a file of two frames, where an *)
(* iteration of the render loop takes no time or StallMs.                  *)
(***************************************************************************)
PaceInit ==
    /\ InitState
    /\ context = "example"
    /\ video \in RenderVideos
    /\ time_base = <<1, 25>>
    /\ track = TRUE
    /\ compositor = BasicEvents
    /\ server = BasicServers
    /\ capacity = ChannelCapacity
    /\ clock = {0, StallMs}

PaceSpec == PaceInit /\ [][RenderNext]_vars

\* C30: when the iteration for a frame ends, the pacing clock is at most two
\* durations of that frame behind wall time.
C30_PacingSnap ==
    [][\A p \in Pipes :
          Takes(p) => Unwrap(pres'[p].lag) <= 2 * Head(chan[p].q).frame_time]_vars

\* C20: whenever the Presenter takes the first frame of a new epoch of the
\* Decoder it resets its frame count.
C20_EveryLoopObserved ==
    [][\A p \in Pipes :
          (/\ Takes(p)
           /\ Len(hist[p].received) > 0
           /\ Head(chan[p].q).epoch > hist[p].received[Len(hist[p].received)].epoch)
          => pres'[p].frame_count = 0]_vars

(***************************************************************************)
(* ConnectSpec: one pipeline of the example under each compositor of       *)
(* AllServers, on a file of two frames.                                    *)
(***************************************************************************)
ConnectInit ==
    /\ InitState
    /\ context = "example"
    /\ video \in RenderVideos
    /\ time_base = <<1, 1000>>
    /\ track = TRUE
    /\ compositor = BasicEvents
    /\ server \in {{srv} : srv \in AllServers}
    /\ capacity = ChannelCapacity
    /\ clock = {0}

ConnectSpec == ConnectInit /\ [][RenderNext]_vars

\* WaylandApp::new has returned Ok in pipeline p and the frame loop runs.
Constructed(p) == pres[p].pc \notin {"none", "init", "done"}

\* The compositor accepts the connection and never announces some required global.
MissingGlobal ==
    \A srv \in server : srv.connect /\ \E g \in RequiredGlobals : ~IsSome(srv.adv[g])

\* C21: a Presenter that was constructed has a configured surface.
C21_ConfiguredWhenConstructed ==
    \A p \in Pipes : Constructed(p) => pres[p].app.configured

\* C22: when a required global is never announced, WaylandApp::new ends with an
\* error after at most MaxIterations + 1 roundtrips, having created no SHM pool,
\* surface or layer surface.
C22_MissingGlobalFails ==
    \A p \in Pipes :
        (MissingGlobal /\ pres[p].pc \notin {"none", "init"}) =>
            /\ pres[p].pc = "done"
            /\ pres[p].app.roundtrips <= MaxIterations + 1
            /\ pres[p].app.objects = {}

\* The construction gave up after the initial roundtrip and MaxIterations more.
C22_Witness ==
    \E p \in Pipes :
        /\ MissingGlobal
        /\ pres[p].pc = "done"
        /\ pres[p].app.roundtrips = MaxIterations + 1

(***************************************************************************)
(* Properties of render_frame, dispatch_events and the handlers (checked   *)
(* under RenderSpec).                                                      *)
(***************************************************************************)
\* C31: render_frame on a surface that is not yet configured returns Ok
\* without effect: no frame is committed, the committed-frame counter, the
\* buffer and its pool offset stay as they were, no buffer is handed to the
\* compositor, and the caller goes on to dispatch_events as after a success.
C31_UnconfiguredNoOp ==
    [][\A p \in Pipes :
          (Takes(p) /\ ~pres[p].app.configured) =>
              /\ ~Commits(p)
              /\ pres'[p].app.frame_count = pres[p].app.frame_count
              /\ pres'[p].app.offset = pres[p].app.offset
              /\ pres'[p].app.buffer_size = pres[p].app.buffer_size
              /\ (pres'[p].app.held => pres[p].app.held)
              /\ pres'[p].app.dispatched = pres[p].app.dispatched + 1]_vars

\* An unconfigured Presenter has taken a frame and committed nothing.
C31_Witness ==
    \E p \in Pipes :
        /\ Constructed(p)
        /\ ~pres[p].app.configured
        /\ hist[p].received # <<>>
        /\ hist[p].committed = <<>>
        /\ pres[p].app.buffer_size = None

\* C32: the event queue is dispatched exactly once for every frame the
\* Presenter takes from the channel, whether render_frame returned Ok or Err.
C32_DispatchPerFrame ==
    [][\A p \in Pipes :
          Takes(p) => pres'[p].app.dispatched = pres[p].app.dispatched + 1]_vars

\* C33: a configure sets `configured` and makes its width and height the
\* output size, so that every frame committed afterwards has a buffer of the
\* size of the last configure.
C33_ConfigureSizesFrames ==
    [][\A p \in Pipes :
          (Commits(p) /\ pres[p].app.configured) =>
              pres'[p].app.buffer_size =
                  Some(<<pres[p].app.configured_width,
                         pres[p].app.configured_height>>)]_vars

\* C37: the buffer render_frame creates, and the frame it wrote to the SHM file
\* for it, never has more bytes (stride x height) than the pool.
C37_BufferWithinPool ==
    \A p \in Pipes :
        IsSome(pres[p].app.buffer_size) =>
            LET size == Unwrap(pres[p].app.buffer_size)
            IN  Blocks(size[1], size[2]) <= pool_size \div BlockBytes

(***************************************************************************)
(* ModeSpec: one pipeline of the example on an output that announces one   *)
(* mode, in WaylandApp::new and again in each roundtrip of dispatch_events.*)
(***************************************************************************)
ModeEvents == {ev \in AllEvents : ev.kind = "mode"}

ModeInit ==
    /\ InitState
    /\ context = "example"
    /\ video \in RenderVideos
    /\ time_base = <<1, 1000>>
    /\ track = TRUE
    /\ compositor \in {{ev} : ev \in ModeEvents}
    /\ server = BasicServers
    /\ capacity = ChannelCapacity
    /\ clock = {0}

ModeSpec == ModeInit /\ [][RenderNext]_vars

\* C34: once the mode event of the output is processed, output_width and
\* output_height are the event's size if its flags include Current (with or
\* without Preferred), and are the values from before (the default) if not.
C34_CurrentModeSizesOutput ==
    \A p \in Pipes : \A ev \in compositor :
        Constructed(p) =>
            IF "current" \in ev.flags
            THEN /\ pres[p].app.output_width = ev.width
                 /\ pres[p].app.output_height = ev.height
            ELSE /\ pres[p].app.output_width = DefaultOutputWidth
                 /\ pres[p].app.output_height = DefaultOutputHeight

(***************************************************************************)
(* Properties of the two flags (checked under FlagSpec).                   *)
(***************************************************************************)
\* C35: no step of the decode task or of the render task (a step that moves
\* a task, the channel or a history of received frames) changes the paused or
\* the stopped flag of any wallpaper: the tasks only read the flags.
C35_TasksOnlyReadFlags ==
    [][(dec' # dec \/ pres' # pres \/ chan' # chan) =>
          (is_paused' = is_paused /\ is_stopped' = is_stopped)]_vars

\* Both flags of a wallpaper are set, its render task has read the stopped
\* flag and ended, and its decode task has read the paused flag and sleeps.
C35_Witness ==
    \E p \in Pipes :
        /\ owner[p] # 0
        /\ is_paused[owner[p]]
        /\ is_stopped[owner[p]]
        /\ pres[p].pc = "done"
        /\ dec[p].pc = "sleep"

\* C38: no task of a pipeline is left behind by the other: once the Decoder
\* has returned the Presenter returns eventually, and once the Presenter has
\* returned the Decoder returns eventually, whatever the flags are.
C38_NoOrphanTask ==
    \A p \in Pipes :
        /\ (dec[p].pc = "done") ~> (pres[p].pc = "done")
        /\ (pres[p].pc = "done") ~> (dec[p].pc = "done")

\* C39: the Player's is_running agrees with the pipeline of its current
\* wallpaper after every operation: it is false when no wallpaper is set, it
\* is true only while a decode task and a render task of the current wallpaper
\* are alive, and it is not false when the current wallpaper's render task
\* commits a frame.
C39_RunningConsistent ==
    [][/\ wallpaper' = 0 => ~is_running'
       /\ is_running' =>
             \E p \in Pipes :
                 /\ owner'[p] = wallpaper'
                 /\ dec'[p].pc \notin {"none", "done"}
                 /\ pres'[p].pc \notin {"none", "done"}
       /\ \A p \in Pipes :
             (Commits(p) /\ owner[p] = wallpaper) => is_running]_vars

(***************************************************************************)
(* WaylandApp::scale_no (wayland.rs:396-441), the scaler of ScaleMode::No. *)
(* Widths, heights and offsets are u32.  A u32 difference is at most       *)
(* 2^32 - 1, more than the checker's integers hold, but the source halves  *)
(* it at once, and the half is below 2^31.                                 *)
(***************************************************************************)
I32Max == 2147483647

\* (a - b) / 2 on u32 (wayland.rs:406-407).  With overflow checks (a debug
\* build) a - b panics for a < b; without them (a release build) it wraps to
\* 2^32 - (b - a), whose half is 2^31 - ceil((b - a) / 2).  None is the panic.
HalfDifference(a, b, overflow_checks) ==
    IF a >= b THEN Some((a - b) \div 2)
    ELSE IF overflow_checks THEN None
    ELSE Some(I32Max - ((b - a - 1) \div 2))

\* scale_no on a video_width x video_height frame and an output_width x
\* output_height output.  The outcome is "panic" (the subtraction overflowed
\* under overflow checks), "out_of_bounds" (the unsafe copy loop writes past
\* the output_width * output_height * 4 bytes of output_data) or "ok".  The
\* copy loop (wayland.rs:423-437) writes the pixels (offset_x + x, offset_y + y)
\* for x < copy_width and y < copy_height at the byte index
\* ((offset_y + y) * output_width + offset_x + x) * 4; the largest one is in
\* the buffer iff its quotient by the four bytes of a pixel and by
\* output_width, last_row, is below output_height.
scale_no(output_width, output_height, video_width, video_height, overflow_checks) ==
    LET half_x == HalfDifference(output_width, video_width, overflow_checks)
        half_y == HalfDifference(output_height, video_height, overflow_checks)
    IN  IF ~IsSome(half_x) \/ ~IsSome(half_y)
        THEN [outcome |-> "panic"]
        ELSE LET offset_x == Unwrap(half_x)
                 offset_y == Unwrap(half_y)
                 copy_width == IF video_width < output_width
                               THEN video_width ELSE output_width
                 copy_height == IF video_height < output_height
                                THEN video_height ELSE output_height
                 last_row == offset_y + (copy_height - 1)
                                + (offset_x \div output_width)
                                + (((offset_x % output_width) + copy_width - 1)
                                      \div output_width)
                 inside == offset_y < output_height /\ last_row < output_height
             IN  [outcome |-> IF inside THEN "ok" ELSE "out_of_bounds",
                  offset_x |-> offset_x, offset_y |-> offset_y,
                  copy_width |-> copy_width, copy_height |-> copy_height]

(***************************************************************************)
(* ScaleSpec: one call of scale_no for each video size and output size of  *)
(* ScaleSizes, in a build with and in a build without overflow checks.     *)
(***************************************************************************)
ScaleSizes ==
    {<<640, 360>>, <<1280, 720>>, <<1920, 1080>>, <<1921, 1080>>,
     <<1080, 1920>>, <<2560, 1440>>, <<3840, 2160>>}

ScaleCall(video_size, output_size) ==
    [pc |-> "call",
     video_width |-> video_size[1], video_height |-> video_size[2],
     output_width |-> output_size[1], output_height |-> output_size[2]]

ScaleInit ==
    /\ IdleState
    /\ context = "lib"
    /\ video \in CtlVideos
    /\ time_base = <<1, 1000>>
    /\ track = TRUE
    /\ compositor = BasicEvents
    /\ server = BasicServers
    /\ capacity = ChannelCapacity
    /\ clock = {0}
    /\ scale_call \in {ScaleCall(v, o) : v \in ScaleSizes, o \in ScaleSizes}

\* The call runs to its end.
ScaleNo ==
    /\ scale_call.pc = "call"
    /\ \E overflow_checks \in BOOLEAN :
          scale_call' = [pc |-> "returned",
                         video_width |-> scale_call.video_width,
                         video_height |-> scale_call.video_height,
                         output_width |-> scale_call.output_width,
                         output_height |-> scale_call.output_height,
                         result |-> scale_no(scale_call.output_width,
                                             scale_call.output_height,
                                             scale_call.video_width,
                                             scale_call.video_height,
                                             overflow_checks)]
    /\ UNCHANGED <<ctlVars, pipeVars, process>>
    /\ UNCHANGED <<context, video, time_base, track, compositor, server,
                   capacity, clock>>

ScaleNext == ScaleNo

ScaleSpec == ScaleInit /\ [][ScaleNext]_vars

\* C36: scale_no centers the source at native size for every video size and
\* output size, a video wider or taller than the output included: the call
\* returns, each offset is half the room the copied extent leaves (so it is
\* non-negative and at most output - copied extent), and every byte written
\* is inside the output buffer.
C36_ScaleNoCenters ==
    scale_call.pc = "returned" =>
        LET r == scale_call.result
        IN  /\ r.outcome = "ok"
            /\ r.offset_x = (scale_call.output_width - r.copy_width) \div 2
            /\ r.offset_y = (scale_call.output_height - r.copy_height) \div 2
            /\ r.offset_x + r.copy_width <= scale_call.output_width
            /\ r.offset_y + r.copy_height <= scale_call.output_height

============================================================================
